---- MODULE Spec2Model ----
(***************************************************************************)
(* A model of the geometric core of chaynabors/fall:                       *)
(*   - build_convex_hull and its helpers (gungame/src/convex_hull.rs),     *)
(*   - Brush::vertices (fall/src/map.rs).                                  *)
(*                                                                         *)
(* Arithmetic.  The source computes in f32.  The model computes exactly,   *)
(* on points with small integer coordinates, for which every difference,   *)
(* dot and cross product of the source is exact in f32 as well.  A unit    *)
(* vector (the result of normalize()) is represented by the primitive      *)
(* integer vector of the same direction; the zero vector stands for the    *)
(* all-NaN vector that normalize() returns for a zero-length argument.     *)
(* Squared distances that are fractions are kept as fractions <<n, d>>.    *)
(*                                                                         *)
(* Indices.  Lists are TLA+ sequences, so position i of the model is       *)
(* position i-1 of the Rust Vec.  The six slots of the extreme-point       *)
(* search keep the source's numbers 0..5.                                  *)
(***************************************************************************)
EXTENDS Integers, Sequences, FiniteSets, TLC

VARIABLES
    input,        \* the points_list argument build_convex_hull was called with
    pc,           \* position in build_convex_hull: "start", "loop", "done"
    points_list,  \* the working list (mut points_list)
    hull_mesh,    \* the HalfEdgeMesh under construction
    face_queue,   \* VecDeque<FaceRc>, as the sequence of queued face ids
    tet_points,   \* what get_extreme_points returned (<<>> before seeding)
    last,         \* what the latest step did (history, for the properties)
    sel,          \* the selection of the latest iteration (history)
    tried,        \* the points whose attachment failed so far (history)
    planes,       \* the brush Brush::vertices is called on
    vertices,     \* the list Brush::vertices returned
    pushed,       \* the triples (i, j, k) line 78 pushed a vertex for (history)
    bpc,          \* position of the brush computation: "idle", "done"
    half_planes,  \* gungame_mappy's list of (point, normal) pairs
    mpc,          \* position of gungame_mappy's loop: "idle", "done"
    text,         \* the &str Map::from_str is called on, one character a cell
    parsed,       \* what Map::from_str returned
    ppc           \* position of the parse: "idle", "done"

vars == <<input, pc, points_list, hull_mesh, face_queue, tet_points, last,
          sel, tried,
          planes, vertices, pushed, bpc, half_planes, mpc, text, parsed, ppc>>

hullVars == <<input, pc, points_list, hull_mesh, face_queue, tet_points, last,
              sel, tried>>
brushVars == <<planes, vertices, pushed, bpc, half_planes, mpc>>
parseVars == <<text, parsed, ppc>>

(***************************************************************************)
(* Vectors (nalgebra Point3 / Vector3) with integer coordinates.           *)
(***************************************************************************)
VSub(a, b) == <<a[1] - b[1], a[2] - b[2], a[3] - b[3]>>

VAdd(a, b) == <<a[1] + b[1], a[2] + b[2], a[3] + b[3]>>

VScale(k, a) == <<k * a[1], k * a[2], k * a[3]>>

Dot(a, b) == a[1] * b[1] + a[2] * b[2] + a[3] * b[3]

Cross(a, b) == <<a[2] * b[3] - a[3] * b[2],
                 a[3] * b[1] - a[1] * b[3],
                 a[1] * b[2] - a[2] * b[1]>>

magnitude_squared(a) == Dot(a, a)

Abs(n) == IF n < 0 THEN 0 - n ELSE n

RECURSIVE Gcd(_, _)
Gcd(a, b) == IF b = 0 THEN a ELSE Gcd(b, a % b)

ZeroVec == <<0, 0, 0>>

SeqRange(seq) == {seq[k] : k \in DOMAIN seq}

\* normalize(): the unit vector of v, as the primitive integer vector of the
\* same direction; ZeroVec (standing for NaN) when v has length zero.
normalize(v) ==
    LET g == Gcd(Gcd(Abs(v[1]), Abs(v[2])), Abs(v[3]))
    IN  IF g = 0 THEN ZeroVec ELSE <<v[1] \div g, v[2] \div g, v[3] \div g>>

IsNaNVec(v) == v = ZeroVec

\* F applied to the value of x: x is evaluated once, before F's body, as Rust
\* evaluates an argument or a `let` before its uses.
Apply(F(_), x) == CHOOSE r \in {F(v) : v \in {x}} : TRUE

(***************************************************************************)
(* Fractions <<n, d>> with d > 0.                                          *)
(***************************************************************************)
FracGt(r, s) == r[1] * s[2] > s[1] * r[2]

(***************************************************************************)
(* convex_hull.rs: helpers of the seed selection.                          *)
(***************************************************************************)
line_to_pt_dist_sq(pt1, pt2, target) ==
    LET line == VSub(pt2, pt1)
        p1_to_target == VSub(target, pt1)
        p2_to_target == VSub(target, pt2)
        p1_t_on_line == Dot(p1_to_target, line)
        line_length2 == magnitude_squared(line)
    IN  IF p1_t_on_line < 0 THEN <<magnitude_squared(p1_to_target), 1>>
        ELSE IF p1_t_on_line >= line_length2
             THEN <<magnitude_squared(p2_to_target), 1>>
        ELSE <<magnitude_squared(p1_to_target) * line_length2
                 - p1_t_on_line * p1_t_on_line, line_length2>>

triangle_normal(pt1, pt2, pt3) ==
    normalize(Cross(VSub(pt2, pt1), VSub(pt3, pt1)))

\* The centroid (pt1 + pt2 + pt3) / 3, kept as three times itself.
triangle_center3(pt1, pt2, pt3) == VAdd(VAdd(pt1, pt2), pt3)

\* (pt - center).magnitude2() for center = c3 / 3, as a fraction.
center_dist_sq(pt, c3) == <<magnitude_squared(VSub(VScale(3, pt), c3)), 9>>

Pair(i, p) == [idx |-> i, pt |-> p]

\* The coordinate slot `start` compares: 0,1 -> x, 2,3 -> y, 4,5 -> z.
SlotAxis(start) == (start \div 2) + 1

\* Slot `start` is replaced when the new point is strictly smaller (even
\* slots) or strictly greater (odd slots) on the slot's axis.
SlotBeats(idx_pair, start, pairs) ==
    IF start % 2 = 0
    THEN idx_pair.pt[SlotAxis(start)] < pairs[start].pt[SlotAxis(start)]
    ELSE idx_pair.pt[SlotAxis(start)] > pairs[start].pt[SlotAxis(start)]

RECURSIVE update_min_max(_, _, _)
update_min_max(idx_pair, start, pairs) ==
    IF start > 5 THEN pairs
    ELSE IF SlotBeats(idx_pair, start, pairs)
         THEN \* the displaced pair is offered to the later slots (slot 5
              \* has none), then the slot takes the new pair
              Apply(LAMBDA shifted : [shifted EXCEPT ![start] = idx_pair],
                    IF start < 5
                    THEN update_min_max(pairs[start], start + 1, pairs)
                    ELSE pairs)
         ELSE update_min_max(idx_pair, start + 1, pairs)

\* An ordering that never swaps p0 and p1.
construct_tetrahedron_order_unswapped(p0, p1, p2, p3) ==
    <<p3.idx, p1.idx, p0.idx, p2.idx>>

construct_tetrahedron_order(p0, p1, p2, p3) ==
    LET n == triangle_normal(p0.pt, p1.pt, p2.pt)
    IN  \* a NaN normal makes the comparison false
        IF (~IsNaNVec(n)) /\ Dot(VSub(p0.pt, p3.pt), n) < 0
        THEN <<p3.idx, p0.idx, p1.idx, p2.idx>>
        ELSE <<p3.idx, p1.idx, p0.idx, p2.idx>>

\* Lines 99-103: the six slots start as (0, list[0]) and every point is
\* offered to slot 0 in input order.
RECURSIVE ScanBoundaries(_, _, _)
ScanBoundaries(list, i, boundaries) ==
    IF i > Len(list) THEN boundaries
    ELSE Apply(LAMBDA updated : ScanBoundaries(list, i + 1, updated),
               update_min_max(Pair(i, list[i]), 0, boundaries))

Boundaries(list) ==
    ScanBoundaries(list, 1, [s \in 0..5 |-> Pair(1, list[1])])

\* A pair search that keeps the pair it starts from, slots 0 and 1.
FurthestPair_keeping_first(boundaries, idx_a, idx_b, acc) == acc

\* Lines 105-117: the pair of slots of greatest squared distance, the first
\* such pair in the order (0,1), (0,2), .., (4,5) of the nested loops.
RECURSIVE FurthestPair(_, _, _, _)
FurthestPair(boundaries, idx_a, idx_b, acc) ==
    IF idx_a > 5 THEN acc
    ELSE IF idx_b > 5
         THEN FurthestPair(boundaries, idx_a + 1, idx_a + 2, acc)
    ELSE LET dist == magnitude_squared(VSub(boundaries[idx_a].pt,
                                            boundaries[idx_b].pt))
         IN  Apply(LAMBDA a : FurthestPair(boundaries, idx_a, idx_b + 1, a),
                 IF dist > acc.max
                 THEN [p0 |-> boundaries[idx_a], p1 |-> boundaries[idx_b],
                       max |-> dist]
                 ELSE acc)

\* Lines 119-128: the slot furthest from the segment p0-p1, skipping the
\* slots that hold p0's or p1's index; boundaries[0] when none beats 0.0.
RECURSIVE FurthestFromLine(_, _, _, _, _)
FurthestFromLine(boundaries, s, p0, p1, acc) ==
    IF s > 5 THEN acc.p
    ELSE LET pair == boundaries[s]
             dist == line_to_pt_dist_sq(p0.pt, p1.pt, pair.pt)
         IN  Apply(LAMBDA a : FurthestFromLine(boundaries, s + 1, p0, p1, a),
                 IF pair.idx = p0.idx \/ pair.idx = p1.idx THEN acc
                 ELSE IF FracGt(dist, acc.max)
                      THEN [p |-> pair, max |-> dist]
                 ELSE acc)

\* Lines 130-140: the slot furthest from the centre of (p0, p1, p2), skipping
\* the slots that hold one of their indices; boundaries[0] when none beats 0.0.
RECURSIVE FurthestFromCenter(_, _, _, _, _, _)
FurthestFromCenter(boundaries, s, p0, p1, p2, acc) ==
    IF s > 5 THEN acc.p
    ELSE LET pair == boundaries[s]
             face_center3 == triangle_center3(p0.pt, p1.pt, p2.pt)
             dist == center_dist_sq(pair.pt, face_center3)
         IN  Apply(LAMBDA a : FurthestFromCenter(boundaries, s + 1, p0, p1, p2, a),
                 IF pair.idx = p0.idx \/ pair.idx = p1.idx \/ pair.idx = p2.idx
                 THEN acc
                 ELSE IF FracGt(dist, acc.max)
                      THEN [p |-> pair, max |-> dist]
                 ELSE acc)

\* The four seeds p0, p1, p2, p3 chosen among the six slots.
SeedsFrom(boundaries) ==
    Apply(LAMBDA far :
            Apply(LAMBDA p2 :
                    Apply(LAMBDA p3 : <<far.p0, far.p1, p2, p3>>,
                          FurthestFromCenter(boundaries, 0, far.p0, far.p1, p2,
                              [p |-> boundaries[0], max |-> <<0, 1>>])),
                  FurthestFromLine(boundaries, 0, far.p0, far.p1,
                      [p |-> boundaries[0], max |-> <<0, 1>>])),
          FurthestPair(boundaries, 0, 1,
              [p0 |-> boundaries[0], p1 |-> boundaries[1],
               max |-> magnitude_squared(VSub(boundaries[0].pt,
                                              boundaries[1].pt))]))

SeedPairs(list) == Apply(LAMBDA boundaries : SeedsFrom(boundaries), Boundaries(list))

get_extreme_points(list) ==
    Apply(LAMBDA s : construct_tetrahedron_order(s[1], s[2], s[3], s[4]),
          SeedPairs(list))

(***************************************************************************)
(* The half-edge mesh (crate half_edge_mesh, an external collaborator whose *)
(* code is not part of the repository).  It is modelled after its contract *)
(* in the specification: triangular faces keyed by a stable id, each an    *)
(* ordered triple of vertex ids; can_see and directed_distance_to measure  *)
(* along the face normal (b - a) x (c - a); attach_point_for_faces         *)
(* replaces the light faces by a fan over the horizon, or fails when the   *)
(* horizon is not one simple closed loop.                                  *)
(***************************************************************************)
EmptyMesh == [verts |-> <<>>, faces |-> <<>>, cur_vert_id |-> 0, cur_face_id |-> 0]

\* HalfEdgeMesh::from_tetrahedron_pts: p1 is the apex, (p2, p3, p4) the base.
from_tetrahedron_pts(p1, p2, p3, p4) ==
    [verts |-> <<p1, p2, p3, p4>>,
     faces |-> <<(<<1, 2, 3>>), (<<2, 1, 4>>), (<<3, 4, 1>>), (<<4, 3, 2>>)>>,
     cur_vert_id |-> 4,
     cur_face_id |-> 4]

FaceIds(mesh) == DOMAIN mesh.faces

FacePos(mesh, f, k) == mesh.verts[mesh.faces[f][k]]

\* Face::normal as compute_attrs sets it.
FaceNormal(mesh, f) ==
    triangle_normal(FacePos(mesh, f, 1), FacePos(mesh, f, 2), FacePos(mesh, f, 3))

\* Face::directed_distance_to: (point - center) . normal.  The centre lies in
\* the face's plane, so this is (point - a) . normal; the value returned is
\* that distance times the (positive) length of the integer normal, which
\* keeps its sign and the order of the distances of one face.  A NaN normal
\* is reported by can_see.
directed_distance_to(mesh, f, point) ==
    Dot(VSub(point, FacePos(mesh, f, 1)), FaceNormal(mesh, f))

\* Face::can_see: directed_distance_to(point) > EPSILON.  For integer
\* coordinates a positive distance is far above f32::EPSILON; any comparison
\* with NaN is false.
can_see(mesh, f, point) ==
    /\ ~IsNaNVec(FaceNormal(mesh, f))
    /\ directed_distance_to(mesh, f, point) > 0

\* The three directed edges (half-edges) of a face.
FaceEdges(t) == {<<t[1], t[2]>>, <<t[2], t[3]>>, <<t[3], t[1]>>}

\* The faces that own the half-edge e.
EdgeOwners(mesh, e) == {f \in FaceIds(mesh) : e \in FaceEdges(mesh.faces[f])}

\* The horizon of a set of faces: their half-edges whose pair belongs to a
\* face outside the set.
Horizon(mesh, remove_faces) ==
    {e \in UNION {FaceEdges(mesh.faces[f]) : f \in remove_faces} :
        EdgeOwners(mesh, <<e[2], e[1]>>) \cap remove_faces = {}}

\* The horizon edge that starts where e ends.
HorizonNext(H, e) == CHOOSE n \in H : n[1] = e[2]

RECURSIVE HorizonWalk(_, _, _, _)
HorizonWalk(H, start, e, acc) ==
    LET n == HorizonNext(H, e)
    IN  IF n = start \/ Len(acc) >= Cardinality(H) THEN acc
        ELSE HorizonWalk(H, start, n, Append(acc, n))

\* The horizon as the sequence of its edges in loop order, from `start`.
HorizonLoop(H, start) == HorizonWalk(H, start, start, <<start>>)

\* One simple closed loop: every horizon vertex is left by exactly one
\* horizon edge and entered by exactly one, and the walk visits every edge.
IsSimpleLoop(H) ==
    /\ H # {}
    /\ \A e \in H : Cardinality({n \in H : n[1] = e[2]}) = 1
    /\ \A e \in H : Cardinality({n \in H : n[2] = e[1]}) = 1
    /\ \E start \in H : Len(HorizonLoop(H, start)) = Cardinality(H)

attach_ok(mesh, remove_faces) == IsSimpleLoop(Horizon(mesh, remove_faces))

\* The ids of the faces attach_point_for_faces creates, in the order of the
\* horizon loop walked from `start`.
new_face_ids(mesh, remove_faces) ==
    [k \in 1..Cardinality(Horizon(mesh, remove_faces)) |-> mesh.cur_face_id + k]

\* An attachment that fans the apex over the horizon but for its last edge:
\* the last new face is built on the first horizon edge again.
attach_leaving_a_gap(mesh, point, remove_faces, start) ==
    LET H == Horizon(mesh, remove_faces)
        loop == HorizonLoop(H, start)
        apex == mesh.cur_vert_id + 1
        kept == FaceIds(mesh) \ remove_faces
        made == {mesh.cur_face_id + k : k \in 1..Len(loop)}
        faces2 == [f \in kept \cup made |->
                     IF f \in kept THEN mesh.faces[f]
                     ELSE LET k == f - mesh.cur_face_id
                              e == loop[IF k = Len(loop) THEN 1 ELSE k]
                          IN  <<e[1], e[2], apex>>]
        used == UNION {SeqRange(mesh.faces[f]) : f \in kept}
                  \cup {e[1] : e \in H} \cup {apex}
    IN  [verts |-> [v \in used |-> IF v = apex THEN point ELSE mesh.verts[v]],
         faces |-> faces2,
         cur_vert_id |-> apex,
         cur_face_id |-> mesh.cur_face_id + Len(loop)]

\* HalfEdgeMesh::attach_point_for_faces on success: the light faces leave the
\* mesh, one face (origin, target, apex) per horizon edge enters it, and the
\* vertices that only removed faces touched leave with them.
attach_point_for_faces(mesh, point, remove_faces, start) ==
    LET H == Horizon(mesh, remove_faces)
        loop == HorizonLoop(H, start)
        apex == mesh.cur_vert_id + 1
        kept == FaceIds(mesh) \ remove_faces
        made == {mesh.cur_face_id + k : k \in 1..Len(loop)}
        faces2 == [f \in kept \cup made |->
                     IF f \in kept THEN mesh.faces[f]
                     ELSE LET e == loop[f - mesh.cur_face_id]
                          IN  <<e[1], e[2], apex>>]
        used == UNION {SeqRange(mesh.faces[f]) : f \in kept}
                  \cup {e[1] : e \in H} \cup {apex}
    IN  [verts |-> [v \in used |-> IF v = apex THEN point ELSE mesh.verts[v]],
         faces |-> faces2,
         cur_vert_id |-> apex,
         cur_face_id |-> mesh.cur_face_id + Len(loop)]

\* The positions of the mesh's vertices.
MeshPoints(mesh) == {mesh.verts[v] : v \in DOMAIN mesh.verts}

(***************************************************************************)
(* build_convex_hull (convex_hull.rs, lines 145-202).                      *)
(***************************************************************************)
\* A removal that leaves the list as it is.
RemoveAt_keeping(list, i) == list

\* Vec::remove(i): the list without its entry at position i.
RemoveAt(list, i) ==
    [k \in 1..(Len(list) - 1) |-> IF k < i THEN list[k] ELSE list[k + 1]]

SetMax(S) == CHOOSE m \in S : \A n \in S : n <= m

\* Lines 151-152: tet_points sorted in descending order, duplicates dropped.
RECURSIVE SortedDedup(_)
SortedDedup(S) ==
    IF S = {} THEN <<>>
    ELSE <<SetMax(S)>> \o SortedDedup(S \ {SetMax(S)})

\* Lines 153-155: remove the listed positions one after the other, each only
\* if it is still within the list.
RECURSIVE RemoveAll(_, _)
RemoveAll(list, idxs) ==
    IF idxs = <<>> THEN list
    ELSE Apply(LAMBDA shorter : RemoveAll(shorter, Tail(idxs)),
               IF Head(idxs) <= Len(list) THEN RemoveAt(list, Head(idxs))
               ELSE list)

\* A seed removal that goes through the positions in ascending order.
remove_seeds_ascending(list, tet) ==
    LET idxs == SortedDedup(SeqRange(tet))
    IN  RemoveAll(list, [k \in 1..Len(idxs) |-> idxs[Len(idxs) + 1 - k]])

remove_seeds(list, tet) == RemoveAll(list, SortedDedup(SeqRange(tet)))

\* Lines 157-159: keep the points some face of the mesh can see.
retain_visible(list, mesh) ==
    SelectSeq(list, LAMBDA p : \E f \in FaceIds(mesh) : can_see(mesh, f, p))

\* A filter that only looks at the first entry of the working list.
face_visible_points_of_first(list, mesh, test_face) ==
    SelectSeq(list, LAMBDA pt : pt = list[1] /\ can_see(mesh, test_face, pt))

\* Lines 166-169: the points of the working list the face can see, in order.
face_visible_points(list, mesh, test_face) ==
    SelectSeq(list, LAMBDA pt : can_see(mesh, test_face, pt))

\* Lines 171-180: the fold over the visible points; idx is the position in
\* face_visible_points of the first point of greatest distance, 0 for None.
RECURSIVE point_maxima(_, _, _, _, _)
point_maxima(visible, mesh, test_face, idx, acc) ==
    IF idx > Len(visible) THEN acc.idx
    ELSE LET dist == directed_distance_to(mesh, test_face, visible[idx])
         IN  Apply(LAMBDA a : point_maxima(visible, mesh, test_face, idx + 1, a),
                 IF dist > acc.max_dist
                 THEN [idx |-> idx, max_dist |-> dist]
                 ELSE acc)

\* A removal one position after the one the fold found.
removed_index_shifted(visible, max_index) == max_index + 1

\* Line 185: the position handed to points_list.remove() is the position the
\* fold found in face_visible_points.
removed_index(visible, max_index) == max_index

\* The faces that can see the chosen point, but for the one of least id.
light_faces_but_least(mesh, max_point) ==
    {f \in FaceIds(mesh) :
        /\ can_see(mesh, f, max_point)
        /\ \E g \in FaceIds(mesh) : g < f /\ can_see(mesh, g, max_point)}

\* Line 187: the faces of the mesh that can see the chosen point.
light_faces(mesh, max_point) ==
    {f \in FaceIds(mesh) : can_see(mesh, f, max_point)}

\* Lines 191-193: keep a point unless it equals a point the popped face saw
\* and no new face can see it.
retain_after_attach(list, visible, mesh, new_faces) ==
    SelectSeq(list, LAMBDA p :
        \/ \A k \in DOMAIN visible : visible[k] # p
        \/ \E k \in DOMAIN new_faces : can_see(mesh, new_faces[k], p))

\* The orders in which HashMap::values() may hand out the faces.
Orders(S) ==
    {q \in [1..Cardinality(S) -> S] : \A i, j \in DOMAIN q : i # j => q[i] # q[j]}

\* Lines 148-161 for a list of at least 4 points: the seeds, the
\* tetrahedron, the removal of the seeds, the pruning of the points no face
\* sees, and the queue of the four faces in the order `order`.
Seeded(list, order) ==
    Apply(LAMBDA tet :
            Apply(LAMBDA mesh :
                    [tet_points |-> tet,
                     hull_mesh |-> mesh,
                     points_list |-> retain_visible(remove_seeds(list, tet), mesh),
                     face_queue |-> order],
                  from_tetrahedron_pts(list[tet[1]], list[tet[2]],
                                       list[tet[3]], list[tet[4]])),
          get_extreme_points(list))

\* The horizon edges attach_point_for_faces may start its fan from in the
\* iteration that pops the head of `queue`; {<<0, 0>>} when the iteration
\* attaches nothing.
FanStarts(list, mesh, queue) ==
    IF Head(queue) \notin FaceIds(mesh) THEN {<<0, 0>>}
    ELSE Apply(LAMBDA visible :
           Apply(LAMBDA max_index :
                   IF max_index = 0 THEN {<<0, 0>>}
                   ELSE Apply(LAMBDA light :
                                IF attach_ok(mesh, light)
                                THEN Horizon(mesh, light)
                                ELSE {<<0, 0>>},
                              light_faces(mesh, visible[max_index])),
                 point_maxima(visible, mesh, Head(queue), 1,
                              [idx |-> 0, max_dist |-> 0])),
           face_visible_points(list, mesh, Head(queue)))

\* Lines 187-196: the light faces of the chosen point and the attachment.
Attach(removed, visible, mesh, queue, max_point, light, start) ==
    IF attach_ok(mesh, light)
    THEN \* lines 190-196
         Apply(LAMBDA attached :
                 [points_list |-> retain_after_attach(removed, visible, attached,
                                      new_face_ids(mesh, light)),
                  hull_mesh |-> attached,
                  face_queue |-> Tail(queue) \o new_face_ids(mesh, light),
                  last |-> "attached"],
               attach_point_for_faces(mesh, max_point, light, start))
    ELSE \* line 197
         [points_list |-> removed, hull_mesh |-> mesh,
          face_queue |-> Tail(queue), last |-> "failed"]

\* Lines 171-185: the furthest visible point, and its removal.
Select(list, visible, mesh, queue, start) ==
    Apply(LAMBDA max_index :
            IF max_index = 0
            THEN \* line 182: the face sees no point
                 [points_list |-> list, hull_mesh |-> mesh,
                  face_queue |-> Tail(queue), last |-> "none"]
            ELSE Apply(LAMBDA light :
                         Attach(RemoveAt(list, removed_index(visible, max_index)),
                                visible, mesh, queue, visible[max_index],
                                light, start),
                       light_faces(mesh, visible[max_index])),
          point_maxima(visible, mesh, Head(queue), 1,
                       [idx |-> 0, max_dist |-> 0]))

\* Lines 163-199: one iteration of the while loop on a non-empty queue.
Iteration(list, mesh, queue, start) ==
    IF Head(queue) \notin FaceIds(mesh)
    THEN \* line 164: the face has left the mesh
         [points_list |-> list, hull_mesh |-> mesh,
          face_queue |-> Tail(queue), last |-> "stale"]
    ELSE Apply(LAMBDA visible : Select(list, visible, mesh, queue, start),
               face_visible_points(list, mesh, Head(queue)))

\* An iteration that selects no point.
NoSelection == [max_index |-> 0]

\* Lines 166-189 as the iteration that pops the head of `queue` goes through
\* them: the working list before line 185 and after it, the visible points,
\* the chosen point, the light faces handed to attach_point_for_faces, the
\* faces of the mesh at that call, the points a light face can see, and the ids of the
\* faces the attachment creates (none when it fails); `again` tells whether
\* the attachment of the chosen point has failed before.
Selection(list, mesh, queue, failed) ==
    IF Head(queue) \notin FaceIds(mesh) THEN NoSelection
    ELSE Apply(LAMBDA visible :
           Apply(LAMBDA max_index :
                   IF max_index = 0 THEN NoSelection
                   ELSE Apply(LAMBDA light :
                          [max_index |-> max_index,
                           max_point |-> visible[max_index],
                           again |-> visible[max_index] \in failed,
                           queue |-> queue,
                           before |-> list,
                           visible |-> visible,
                           after_remove |->
                               RemoveAt(list, removed_index(visible, max_index)),
                           light |-> light,
                           mesh_faces |-> FaceIds(mesh),
                           light_saw |->
                               {k \in 1..Len(list) :
                                  \E f \in light : can_see(mesh, f, list[k])},
                           new_faces |-> IF attach_ok(mesh, light)
                                         THEN new_face_ids(mesh, light)
                                         ELSE <<>>],
                          light_faces(mesh, visible[max_index])),
                 point_maxima(visible, mesh, Head(queue), 1,
                              [idx |-> 0, max_dist |-> 0])),
           face_visible_points(list, mesh, Head(queue)))

\* A length test that only stops the empty list.
too_few_only_empty(list) == Len(list) < 1

\* A length test that lets lists of 3 points through to the seeding.
too_few_below_three(list) == Len(list) < 3

\* Line 147: the test of the early return.
too_few(list) == Len(list) < 4

\* Lines 145-161: the early return for fewer than 4 points, otherwise the
\* seeding; HashMap::values() hands out the four faces in any order.
Build ==
    /\ pc = "start"
    /\ IF too_few(input)
       THEN /\ hull_mesh' = EmptyMesh
            /\ pc' = "done"
            /\ last' = "empty"
            /\ UNCHANGED <<points_list, face_queue, tet_points>>
       ELSE \E order \in Orders(1..4) :
              \E st \in {Seeded(input, order)} :
                  /\ tet_points' = st.tet_points
                  /\ hull_mesh' = st.hull_mesh
                  /\ points_list' = st.points_list
                  /\ face_queue' = st.face_queue
                  /\ pc' = "loop"
                  /\ last' = "tetrahedron"
    /\ UNCHANGED <<input, sel, tried, brushVars, parseVars>>

\* Lines 163-199: one iteration of the while loop.
Iterate ==
    /\ pc = "loop"
    /\ face_queue # <<>>
    /\ \E start \in FanStarts(points_list, hull_mesh, face_queue) :
         \E st \in {Iteration(points_list, hull_mesh, face_queue, start)} :
             /\ points_list' = st.points_list
             /\ hull_mesh' = st.hull_mesh
             /\ face_queue' = st.face_queue
             /\ last' = st.last
             /\ \E chosen \in {Selection(points_list, hull_mesh, face_queue, tried)} :
                   /\ sel' = chosen
                   /\ tried' = IF st.last = "failed"
                               THEN tried \cup {chosen.max_point} ELSE tried
    /\ UNCHANGED <<input, pc, tet_points, brushVars, parseVars>>

\* Line 201: the queue is empty, the mesh is returned.
Return ==
    /\ pc = "loop"
    /\ face_queue = <<>>
    /\ pc' = "done"
    /\ last' = "returned"
    /\ UNCHANGED <<input, points_list, hull_mesh, face_queue, tet_points, sel,
                   tried, brushVars, parseVars>>

(***************************************************************************)
(* The inputs build_convex_hull is run on.                                 *)
(***************************************************************************)
\* The longest input drawn from SmallPool.
MaxPts == 5

\* The longest input drawn from GenPts.
MaxGenPts == 6

\* Points with ties on the axes, coplanar quadruples and collinear triples.
SmallPool == {<<0, 0, 0>>, <<1, 0, 0>>, <<0, 1, 0>>, <<0, 0, 1>>,
              <<1, 1, 0>>, <<1, 0, 2>>}

\* Six points in general position: no two equal on any coordinate, no four
\* coplanar.
GenPts == {<<0, 6, 1>>, <<1, 0, 4>>, <<2, 4, 0>>, <<3, 5, 6>>,
           <<5, 2, 5>>, <<6, 3, 2>>}

\* Seven points in general position, each of them a vertex of their hull.
ConvexPts == {<<0, 5, 0>>, <<1, 1, 4>>, <<2, 2, 3>>, <<3, 0, 6>>,
              <<4, 3, 5>>, <<5, 4, 2>>, <<6, 6, 1>>}

\* The lists of n distinct points of S.
InjSeqs(S, n) ==
    {q \in [1..n -> S] : \A i, j \in 1..n : i # j => q[i] # q[j]}

\* The lists of fewer than 4 points, repeated points included.
ShortInputs == UNION {[1..n -> {<<0, 0, 0>>, <<1, 0, 0>>, <<0, 1, 2>>}] : n \in 0..3}

\* Four times the same point, and four collinear points.
RepeatedInputs == {[k \in 1..4 |-> p] : p \in SmallPool}
                    \cup {[k \in 1..4 |-> <<k, k, 0>>]}

SmallInputs == UNION {InjSeqs(SmallPool, n) : n \in 4..MaxPts}

\* The points of S as a list in ascending lexicographic order.
RECURSIVE SortedList(_)
SortedList(S) ==
    IF S = {} THEN <<>>
    ELSE LET m == CHOOSE p \in S : \A q \in S :
                      \/ p[1] < q[1]
                      \/ p[1] = q[1] /\ p[2] < q[2]
                      \/ p[1] = q[1] /\ p[2] = q[2] /\ p[3] <= q[3]
         IN  <<m>> \o SortedList(S \ {m})

\* The list with its entries at positions i and j exchanged.
Swap(list, i, j) ==
    [k \in DOMAIN list |-> IF k = i THEN list[j]
                           ELSE IF k = j THEN list[i] ELSE list[k]]

\* The orderings of S that differ from the sorted one by at most one exchange.
SwapOrders(S) ==
    {Swap(SortedList(S), i, j) : i, j \in 1..Cardinality(S)}

\* Six points in general position, the last of them inside their hull and
\* outside the tetrahedron of the seeds.
ShadowedInput ==
    <<(<<1, 6, 4>>), (<<6, 5, 2>>), (<<0, 1, 5>>), (<<3, 3, 0>>), (<<5, 0, 6>>),
      (<<2, 4, 3>>)>>

GenInputs ==
    UNION {SwapOrders(S) : S \in {T \in SUBSET GenPts :
                                    Cardinality(T) \in 4..MaxGenPts}}
      \cup SwapOrders(ConvexPts)
      \cup {ShadowedInput}

\* The six points of SmallPool in an order that makes an attachment fail
\* while two points are in the working list.
RetryInput ==
    <<(<<1, 1, 0>>), (<<0, 0, 1>>), (<<1, 0, 2>>), (<<0, 0, 0>>), (<<1, 0, 0>>),
      (<<0, 1, 0>>)>>

Inputs == ShortInputs \cup RepeatedInputs \cup SmallInputs \cup {RetryInput}

HullIdle ==
    /\ pc = "start"
    /\ hull_mesh = EmptyMesh
    /\ face_queue = <<>>
    /\ tet_points = <<>>
    /\ last = "init"
    /\ sel = NoSelection
    /\ tried = {}

BrushIdle ==
    /\ planes = <<>>
    /\ vertices = <<>>
    /\ pushed = <<>>
    /\ bpc = "idle"
    /\ half_planes = <<>>
    /\ mpc = "idle"

ParseIdle ==
    /\ text = <<>>
    /\ parsed = <<>>
    /\ ppc = "idle"

Init ==
    /\ input \in Inputs
    /\ HullIdle
    /\ points_list = input
    /\ BrushIdle
    /\ ParseIdle

Next == Build \/ Iterate \/ Return

\* The while loop run to its end from a seeded state, the fan of every
\* attachment started at the least horizon edge.
RECURSIVE RunLoop(_)
RunLoop(st) ==
    IF st.face_queue = <<>> THEN st
    ELSE Apply(LAMBDA next :
                 RunLoop([tet_points |-> st.tet_points,
                          hull_mesh |-> next.hull_mesh,
                          points_list |-> next.points_list,
                          face_queue |-> next.face_queue]),
               Iteration(st.points_list, st.hull_mesh, st.face_queue,
                   CHOOSE e \in FanStarts(st.points_list, st.hull_mesh,
                                          st.face_queue) : TRUE))

\* The mesh build_convex_hull returns for `list`, with the faces of the
\* tetrahedron queued in the order of their ids.
HullOf(list) ==
    IF too_few(list) THEN EmptyMesh
    ELSE Apply(LAMBDA st : RunLoop(st).hull_mesh, Seeded(list, <<1, 2, 3, 4>>))

Spec == Init /\ [][Next]_vars

\* build_convex_hull on lists of points in general position.
InitGen ==
    /\ input \in GenInputs
    /\ HullIdle
    /\ points_list = input
    /\ BrushIdle
    /\ ParseIdle

SpecGen == InitGen /\ [][Next]_vars

\* Five points whose seeds are degenerate: an attachment fails and a later
\* one succeeds.
FailingInput ==
    <<(<<1, 1, 0>>), (<<0, 0, 1>>), (<<0, 1, 0>>), (<<1, 0, 2>>), (<<0, 0, 0>>)>>

\* build_convex_hull run to its end on the four corners of a tetrahedron in
\* several orders, on repeated and collinear points and on FailingInput; the
\* loop of lines 163-199 goes on while the queue holds a face and line 201
\* follows it.
LiveInputs ==
    SwapOrders({<<0, 0, 0>>, <<1, 0, 0>>, <<0, 1, 0>>, <<0, 0, 1>>})
      \cup RepeatedInputs \cup {FailingInput}

InitLive ==
    /\ input \in LiveInputs
    /\ HullIdle
    /\ points_list = input
    /\ BrushIdle
    /\ ParseIdle

SpecLive == InitLive /\ [][Next]_vars /\ WF_vars(Next)

\* build_convex_hull on the corners of a cube and points inside it.
MaxInterior == 1

CubeSide == 4

CubeCorners == {<<x, y, z>> : x, y, z \in {0, CubeSide}}

\* Points strictly inside the cube; the first MaxInterior of them are used.
InteriorPts == <<(<<2, 2, 2>>), (<<1, 2, 3>>), (<<3, 1, 1>>)>>

CubeInputs ==
    UNION {SwapOrders(CubeCorners \cup {InteriorPts[k] : k \in 1..n}) :
             n \in 0..MaxInterior}

InitCube ==
    /\ input \in CubeInputs
    /\ HullIdle
    /\ points_list = input
    /\ BrushIdle
    /\ ParseIdle

SpecCube == InitCube /\ [][Next]_vars

(***************************************************************************)
(* Brush::vertices (src/fall/src/map.rs).  A plane is its three points;    *)
(* the texture fields take no part in the computation.  A unit normal is   *)
(* the primitive integer vector of its direction, ZeroVec for the NaN      *)
(* vector a degenerate plane normalizes to.  A coordinate of a vertex is a *)
(* reduced fraction <<n, d>> with d > 0; <<1, 0>> and <<-1, 0>> are the    *)
(* infinities and <<0, 0>> is NaN.                                         *)
(***************************************************************************)
Sgn(n) == IF n > 0 THEN 1 ELSE IF n < 0 THEN 0 - 1 ELSE 0

Frac(n, d) ==
    LET g == Gcd(Abs(n), Abs(d))
        s == Sgn(d)
    IN  <<(s * n) \div g, (s * d) \div g>>

NaNPoint == <<(<<0, 0>>), (<<0, 0>>), (<<0, 0>>)>>

Plane(p0, p1, p2) == [points |-> <<p0, p1, p2>>]

\* Line 57: (points[1] - points[0]).cross(points[2] - points[0]).normalize()
plane_normal(plane) ==
    normalize(Cross(VSub(plane.points[2], plane.points[1]),
                    VSub(plane.points[3], plane.points[1])))

\* Lines 54-58: the normals of the planes, in order.
plane_normals(ps) == [i \in 1..Len(ps) |-> plane_normal(ps[i])]

\* The == of two float vectors: NaN is equal to nothing, itself included.
NormEq(a, b) == ~IsNaNVec(a) /\ ~IsNaNVec(b) /\ a = b

\* Line 73: the determinant of the matrix whose columns are a, b, c.
determinant(a, b, c) == Dot(a, Cross(b, c))

\* Loops that visit every set of three planes once, in ascending order.
skipped_unless_ascending(i, j, k, normals) ==
    \/ i >= j \/ NormEq(normals[i], normals[j])
    \/ j >= k
    \/ NormEq(normals[i], normals[k]) \/ NormEq(normals[j], normals[k])

\* Lines 67 and 71: the triples of planes the loops skip.
skipped(i, j, k, normals) ==
    \/ i = j \/ NormEq(normals[i], normals[j])
    \/ i = k \/ j = k
    \/ NormEq(normals[i], normals[k]) \/ NormEq(normals[j], normals[k])

\* The intersection formula without its third term.
intersection_of_two_terms(p1, n1, p2, n2, p3, n3, zsign) ==
    IF IsNaNVec(n1) \/ IsNaNVec(n2) \/ IsNaNVec(n3) THEN NaNPoint
    ELSE LET det == determinant(n1, n2, n3)
             sum == VAdd(VScale(Dot(p1.points[1], n1), Cross(n2, n3)),
                         VScale(Dot(p2.points[1], n2), Cross(n3, n1)))
         IN  IF det = 0 THEN [c \in 1..3 |-> <<zsign * Sgn(sum[c]), 0>>]
             ELSE [c \in 1..3 |-> Frac(sum[c], det)]

\* Lines 73-77: 1/det * (p1.n1 n2 x n3 + p2.n2 n3 x n1 + p3.n3 n1 x n2).  The
\* lengths of the normals cancel between the sum and the determinant.  A zero
\* determinant makes 1/det infinite, of the sign `zsign` that rounding gave
\* the zero, and a NaN normal makes every coordinate NaN.
intersection(p1, n1, p2, n2, p3, n3, zsign) ==
    IF IsNaNVec(n1) \/ IsNaNVec(n2) \/ IsNaNVec(n3) THEN NaNPoint
    ELSE LET det == determinant(n1, n2, n3)
             sum == VAdd(VAdd(VScale(Dot(p1.points[1], n1), Cross(n2, n3)),
                              VScale(Dot(p2.points[1], n2), Cross(n3, n1))),
                         VScale(Dot(p3.points[1], n3), Cross(n1, n2)))
         IN  IF det = 0 THEN [c \in 1..3 |-> <<zsign * Sgn(sum[c]), 0>>]
             ELSE [c \in 1..3 |-> Frac(sum[c], det)]

\* The index triples (i, j, k) in the order of the three nested loops.
loop_triples(n) ==
    [t \in 1..(n * n * n) |->
        <<((t - 1) \div (n * n)) + 1, (((t - 1) \div n) % n) + 1,
          ((t - 1) % n) + 1>>]

\* Lines 60-72: the triples that reach line 73, in loop order.
pushed_triples(ps, normals) ==
    SelectSeq(loop_triples(Len(ps)),
              LAMBDA t : ~skipped(t[1], t[2], t[3], normals))

\* Lines 60-81: the vertex of every triple that is not skipped, in loop order.
candidates(ps, normals, zsign) ==
    LET kept == pushed_triples(ps, normals)
    IN  [x \in 1..Len(kept) |->
            intersection(ps[kept[x][1]], normals[kept[x][1]],
                         ps[kept[x][2]], normals[kept[x][2]],
                         ps[kept[x][3]], normals[kept[x][3]], zsign)]

\* 0.2 is 1 / ToleranceInv.
ToleranceInv == 5

IsFinitePoint(v) == \A c \in 1..3 : v[c][2] # 0

\* (v - p0) . n >= -0.2 for a vertex of finite coordinates and a unit normal
\* of direction n: with s the dot product of (v - p0) and n scaled by the
\* product l of the denominators of v, s / (l |n|) >= -1 / ToleranceInv.
finite_within(v, p0, n) ==
    LET l == v[1][2] * v[2][2] * v[3][2]
        s == (v[1][1] - p0[1] * v[1][2]) * n[1] * v[2][2] * v[3][2]
           + (v[2][1] - p0[2] * v[2][2]) * n[2] * v[1][2] * v[3][2]
           + (v[3][1] - p0[3] * v[3][2]) * n[3] * v[1][2] * v[2][2]
    IN  \/ s >= 0
        \/ ToleranceInv * ToleranceInv * s * s <= l * l * magnitude_squared(n)

\* The same comparison when a coordinate of v is infinite or NaN: a NaN term
\* or infinite terms of both signs make the sum NaN and the comparison false.
infinite_within(v, n) ==
    LET nonfinite == {c \in 1..3 : v[c][2] = 0}
        term(c) == v[c][1] * Sgn(n[c])
    IN  /\ \A c \in nonfinite : term(c) = 1
        /\ nonfinite # {}

\* Line 84: the predicate of the retain for the plane of point p0, normal n.
within(v, p0, n) ==
    /\ ~IsNaNVec(n)
    /\ IF IsFinitePoint(v) THEN finite_within(v, p0, n)
       ELSE infinite_within(v, n)

\* The planes whose retain passes but for the last plane of the brush.
retained_but_last(ps) == 1..(Len(ps) - 1)

\* Line 83: the planes whose retain passes over the vertices.
retained_for(ps) == 1..Len(ps)

\* Every triple of three different planes gives a vertex and nothing is
\* retained out.
brush_vertices_raw(ps, zsign) ==
    LET normals == plane_normals(ps)
        kept == SelectSeq(loop_triples(Len(ps)),
                          LAMBDA t : Cardinality({t[1], t[2], t[3]}) = 3)
    IN  [x \in 1..Len(kept) |->
            intersection(ps[kept[x][1]], normals[kept[x][1]],
                         ps[kept[x][2]], normals[kept[x][2]],
                         ps[kept[x][3]], normals[kept[x][3]], zsign)]

\* Lines 53-88: Brush::vertices.
brush_vertices(ps, zsign) ==
    Apply(LAMBDA normals :
            SelectSeq(Apply(LAMBDA ns : candidates(ps, ns, zsign), normals),
                      LAMBDA v : \A i \in retained_for(ps) :
                                    within(v, ps[i].points[1], normals[i])),
          plane_normals(ps))

\* One call of Brush::vertices on the brush at hand.
Vertices ==
    /\ bpc = "idle"
    /\ \E zsign \in {1, 0 - 1} :
          vertices' = brush_vertices(planes, zsign)
    /\ pushed' = pushed_triples(planes, plane_normals(planes))
    /\ bpc' = "done"
    /\ UNCHANGED <<planes, half_planes, mpc, hullVars, parseVars>>

\* gungame_mappy main.rs line 28: cross(points[2] - points[0],
\* points[1] - points[0]).normalize()
half_plane_normal(plane) ==
    normalize(Cross(VSub(plane.points[3], plane.points[1]),
                    VSub(plane.points[2], plane.points[1])))

\* gungame_mappy main.rs lines 23-32: the (points[0], normal) pair of every
\* plane of the brush, in order.
HalfPlanes ==
    /\ mpc = "idle"
    /\ half_planes' = [i \in 1..Len(planes) |->
                         <<planes[i].points[1], half_plane_normal(planes[i])>>]
    /\ mpc' = "done"
    /\ UNCHANGED <<planes, vertices, pushed, bpc, hullVars, parseVars>>

\* Brushes: the half-spaces x >= 0, y >= 0, z >= 0, x <= 2, x >= 1 and
\* x + y + z <= 3, and a plane through three collinear points.
MaxPlanes == 4

PlanePool ==
    { Plane(<<0, 0, 0>>, <<0, 1, 0>>, <<0, 0, 1>>),
      Plane(<<0, 0, 0>>, <<0, 0, 1>>, <<1, 0, 0>>),
      Plane(<<0, 0, 0>>, <<1, 0, 0>>, <<0, 1, 0>>),
      Plane(<<2, 0, 0>>, <<2, 0, 1>>, <<2, 1, 0>>),
      Plane(<<1, 0, 0>>, <<1, 2, 0>>, <<1, 0, 2>>),
      Plane(<<3, 0, 0>>, <<0, 0, 3>>, <<0, 3, 0>>),
      Plane(<<0, 0, 0>>, <<1, 1, 1>>, <<2, 2, 2>>) }

\* The brush of the map_cube test (lines 260-279), plane lines in order.
MapCubeBrush ==
    << Plane(<<-64, -16, -64>>, <<-64, -16, -63>>, <<-64, -17, -64>>),
       Plane(<<64, -64, 64>>, <<64, -64, 65>>, <<65, -64, 64>>),
       Plane(<<-64, -16, -64>>, <<-64, -17, -64>>, <<-63, -16, -64>>),
       Plane(<<64, -48, 64>>, <<65, -48, 64>>, <<64, -49, 64>>),
       Plane(<<-64, 64, -64>>, <<-63, 64, -64>>, <<-64, 64, -63>>),
       Plane(<<64, -48, 64>>, <<64, -49, 64>>, <<64, -48, 65>>) >>

\* The 6 face planes of the box from corner lo to corner hi, each wound as
\* the plane of the same face in MapCubeBrush.
box_planes(lo, hi) ==
    << Plane(lo, VAdd(lo, <<0, 0, 1>>), VAdd(lo, <<0, -1, 0>>)),
       Plane(<<hi[1], lo[2], hi[3]>>, <<hi[1], lo[2], hi[3] + 1>>,
             <<hi[1] + 1, lo[2], hi[3]>>),
       Plane(lo, VAdd(lo, <<0, -1, 0>>), VAdd(lo, <<1, 0, 0>>)),
       Plane(hi, VAdd(hi, <<1, 0, 0>>), VAdd(hi, <<0, -1, 0>>)),
       Plane(<<lo[1], hi[2], lo[3]>>, <<lo[1] + 1, hi[2], lo[3]>>,
             <<lo[1], hi[2], lo[3] + 1>>),
       Plane(hi, VAdd(hi, <<0, -1, 0>>), VAdd(hi, <<0, 0, 1>>)) >>

BoxLows == {<<0, 0, 0>>, <<-1, -2, -3>>, <<-64, -64, -64>>}

BoxHighs == {<<1, 1, 1>>, <<2, 1, 3>>, <<64, 64, 64>>}

\* A list with its entries i and j exchanged.
SwapPlanes(ps, i, j) ==
    [k \in 1..Len(ps) |-> IF k = i THEN ps[j] ELSE IF k = j THEN ps[i] ELSE ps[k]]

\* Box brushes, their plane lines in the order of the test or with two of
\* them exchanged.
BoxBrushes ==
    {SwapPlanes(b, i, j) :
        b \in {box_planes(lo, hi) : lo \in BoxLows, hi \in BoxHighs}
                \cup {MapCubeBrush},
        i \in 1..6, j \in 1..6}

BrushInputs == UNION {[1..n -> PlanePool] : n \in 0..MaxPlanes} \cup BoxBrushes

InitBrush ==
    /\ planes \in BrushInputs
    /\ vertices = <<>>
    /\ pushed = <<>>
    /\ bpc = "idle"
    /\ half_planes = <<>>
    /\ mpc = "idle"
    /\ input = <<>>
    /\ points_list = <<>>
    /\ HullIdle
    /\ ParseIdle

NextBrush == Vertices \/ HalfPlanes

SpecBrush == InitBrush /\ [][NextBrush]_vars

(***************************************************************************)
(* Map::from_str and map_parser (src/fall/src/map.rs).  A text is the      *)
(* sequence of its characters; a parser takes the text and the position of *)
(* the next character and gives [ok, pos, val]: whether it matched, the    *)
(* position after the match (of the failure when it did not), the value.   *)
(* Numbers are integers: the texts of the model hold no '.', exponent, or  *)
(* spelling of nan or inf.                                                 *)
(***************************************************************************)
Ok(p, v) == [ok |-> TRUE, pos |-> p, val |-> v]

Err(p) == [ok |-> FALSE, pos |-> p, val |-> <<>>]

\* The `?` of a parser sequence: the rest runs on what matched, the error is
\* handed on.
Bind(r, F(_)) == Apply(LAMBDA v : IF v.ok THEN F(v) ELSE v, r)

\* The character at position p, "" past the end of the text.
At(s, p) == IF p >= 1 /\ p <= Len(s) THEN s[p] ELSE ""

DigitChars == <<"0", "1", "2", "3", "4", "5", "6", "7", "8", "9">>

IsDigit(c) == c \in SeqRange(DigitChars)

\* char::is_alphabetic on the letters the texts of the model are made of.
IsAlphabetic(c) ==
    c \in {"a", "c", "d", "e", "h", "l", "m", "n", "o", "p", "r", "s", "t",
           "w", "x", "y", "B", "T"}

IsMultispace(c) == c \in {" ", "\t", "\r", "\n"}

\* nom char(c)
char(c, s, p) == IF At(s, p) = c THEN Ok(p + 1, c) ELSE Err(p)

\* nom not_line_ending: the position of the end of the line.
RECURSIVE not_line_ending(_, _)
not_line_ending(s, p) ==
    IF p > Len(s) \/ s[p] \in {"\n", "\r"} THEN p
    ELSE not_line_ending(s, p + 1)

\* White space without the comments.
RECURSIVE ws_without_comments(_, _)
ws_without_comments(s, p) ==
    IF IsMultispace(At(s, p)) THEN ws_without_comments(s, p + 1) ELSE p

\* Lines 143-153: comment and ws, many0(alt((multispace1, comment))); ws
\* matches the empty text too, so it gives the position alone.
RECURSIVE ws(_, _)
ws(s, p) ==
    IF IsMultispace(At(s, p)) THEN ws(s, p + 1)
    ELSE IF At(s, p) = "/" /\ At(s, p + 1) = "/"
         THEN ws(s, not_line_ending(s, p + 2))
         ELSE p

\* nom take_until: the position of the next c from p on, 0 when there is none.
RECURSIVE take_until(_, _, _)
take_until(c, s, p) ==
    IF p > Len(s) THEN 0
    ELSE IF s[p] = c THEN p ELSE take_until(c, s, p + 1)

\* Lines 155-159: delimited(char('"'), take_until("\""), char('"'))
string(s, p) ==
    IF At(s, p) # "\"" THEN Err(p)
    ELSE Apply(LAMBDA q : IF q = 0 THEN Err(p + 1)
                          ELSE Ok(q + 1, SubSeq(s, p + 1, q - 1)),
               take_until("\"", s, p + 1))

\* Lines 161-165: separated_pair(string, ws, string)
property(s, p) ==
    Bind(string(s, p), LAMBDA k :
    Bind(string(s, ws(s, k.pos)), LAMBDA v :
    Ok(v.pos, <<k.val, v.val>>)))

\* The position after the digits that start at p.
RECURSIVE digit_run(_, _)
digit_run(s, p) == IF IsDigit(At(s, p)) THEN digit_run(s, p + 1) ELSE p

DigitValue(c) == (CHOOSE d \in 1..10 : DigitChars[d] = c) - 1

\* The number a run of digits spells.
RECURSIVE Number(_)
Number(ds) ==
    IF ds = <<>> THEN 0
    ELSE 10 * Number(SubSeq(ds, 1, Len(ds) - 1)) + DigitValue(ds[Len(ds)])

\* nom float on an optional sign and a run of digits.
float(s, p) ==
    LET start == IF At(s, p) \in {"-", "+"} THEN p + 1 ELSE p
        end == digit_run(s, start)
    IN  IF end = start THEN Err(p)
        ELSE Ok(end, (IF At(s, p) = "-" THEN 0 - 1 ELSE 1)
                       * Number(SubSeq(s, start, end - 1)))

\* Lines 167-174: tuple((char('('), ws, float, ws, float, ws, float, ws,
\* char(')')))
point(s, p) ==
    Bind(char("(", s, p), LAMBDA a :
    Bind(float(s, ws(s, a.pos)), LAMBDA x :
    Bind(float(s, ws(s, x.pos)), LAMBDA y :
    Bind(float(s, ws(s, y.pos)), LAMBDA z :
    Bind(char(")", s, ws(s, z.pos)), LAMBDA b :
    Ok(b.pos, <<x.val, y.val, z.val>>))))))

\* The position after the characters of a literal that start at p.
RECURSIVE take_while_literal(_, _)
take_while_literal(s, p) ==
    IF At(s, p) = "_" \/ IsAlphabetic(At(s, p))
    THEN take_while_literal(s, p + 1) ELSE p

\* Lines 176-183: one '_' or letter, then every '_' or letter that follows.
literal(s, p) ==
    IF At(s, p) = "_" \/ IsAlphabetic(At(s, p))
    THEN Apply(LAMBDA q : Ok(q, SubSeq(s, p + 1, q - 1)),
               take_while_literal(s, p + 1))
    ELSE Err(p)

\* Plane::new (lines 22-39)
Plane_new(points, texture, x_offset, y_offset, rotation, x_scale, y_scale) ==
    [points |-> points, texture |-> texture, x_offset |-> x_offset,
     y_offset |-> y_offset, rotation |-> rotation, x_scale |-> x_scale,
     y_scale |-> y_scale]

\* Lines 185-195: three points, the texture and five numbers, ws between.
plane(s, p) ==
    Bind(point(s, p), LAMBDA a :
    Bind(point(s, ws(s, a.pos)), LAMBDA b :
    Bind(point(s, ws(s, b.pos)), LAMBDA c :
    Bind(literal(s, ws(s, c.pos)), LAMBDA tex :
    Bind(float(s, ws(s, tex.pos)), LAMBDA x :
    Bind(float(s, ws(s, x.pos)), LAMBDA y :
    Bind(float(s, ws(s, y.pos)), LAMBDA r :
    Bind(float(s, ws(s, r.pos)), LAMBDA sx :
    Bind(float(s, ws(s, sx.pos)), LAMBDA sy :
    Ok(sy.pos, Plane_new(<<a.val, b.val, c.val>>, tex.val, x.val, y.val,
                         r.val, sx.val, sy.val)))))))))))

\* Brush::new (lines 49-51)
Brush_new(ps) == [planes |-> ps]

\* Line 202: many0(terminated(plane, ws)), which ends at the first plane
\* that does not match and keeps the planes before it.
RECURSIVE many0_planes(_, _, _)
many0_planes(s, p, acc) ==
    Apply(LAMBDA r : IF r.ok
                     THEN many0_planes(s, ws(s, r.pos), Append(acc, r.val))
                     ELSE Ok(p, acc),
          plane(s, p))

\* Lines 197-205: delimited(terminated(char('{'), ws), many0(...), char('}'))
brush(s, p) ==
    Bind(char("{", s, p), LAMBDA a :
    Bind(many0_planes(s, ws(s, a.pos), <<>>), LAMBDA b :
    Bind(char("}", s, b.pos), LAMBDA c :
    Ok(c.pos, Brush_new(b.val)))))

\* Entity::default()
EntityDefault == [properties |-> <<>>, brushes |-> <<>>]

\* HashMap::insert
Insert(f, k, v) == [x \in (DOMAIN f) \cup {k} |-> IF x = k THEN v ELSE f[x]]

\* Lines 214-220: many0(terminated(alt((property, brush)), ws)), each match
\* recorded in the entity.
RECURSIVE many0_items(_, _, _)
many0_items(s, p, entity_acc) ==
    Apply(LAMBDA pr :
            IF pr.ok
            THEN many0_items(s, ws(s, pr.pos),
                     [entity_acc EXCEPT
                        !.properties = Insert(@, pr.val[1], pr.val[2])])
            ELSE Apply(LAMBDA br :
                         IF br.ok
                         THEN many0_items(s, ws(s, br.pos),
                                  [entity_acc EXCEPT
                                     !.brushes = Append(@, br.val)])
                         ELSE Ok(p, entity_acc),
                       brush(s, p)),
          property(s, p))

\* Lines 207-225
entity(s, p) ==
    Bind(char("{", s, p), LAMBDA a :
    Bind(many0_items(s, ws(s, a.pos), EntityDefault), LAMBDA e :
    Bind(char("}", s, e.pos), LAMBDA c :
    Ok(c.pos, e.val))))

\* Line 230: many0(terminated(entity, ws))
RECURSIVE many0_entities(_, _, _)
many0_entities(s, p, acc) ==
    Apply(LAMBDA r : IF r.ok
                     THEN many0_entities(s, ws(s, r.pos), Append(acc, r.val))
                     ELSE Ok(p, acc),
          entity(s, p))

\* Map::new (lines 103-105)
Map_new(entities) == [entities |-> entities]

\* Lines 227-231: preceded(ws, map(many0(terminated(entity, ws)), Map::new))
parse(s) ==
    Bind(many0_entities(s, ws(s, 1), <<>>), LAMBDA r :
    Ok(r.pos, Map_new(r.val)))

\* Lines 107-112: Ok(map) when parse matched, whatever text is left over;
\* otherwise the error, with the position convert_error reports.
from_str(s) ==
    Apply(LAMBDA r : IF r.ok THEN [ok |-> TRUE, map |-> r.val]
                     ELSE [ok |-> FALSE, at |-> r.pos],
          parse(s))

\* One call of Map::from_str.
FromStr ==
    /\ ppc = "idle"
    /\ parsed' = from_str(text)
    /\ ppc' = "done"
    /\ UNCHANGED <<text, hullVars, brushVars>>

\* Map texts.  A source map is a list of entities, an entity a list of
\* properties (key, value) and a list of brushes, a brush a list of plane
\* lines [points, texture, numbers].
RECURSIVE DigitsOf(_)
DigitsOf(n) ==
    IF n < 10 THEN <<DigitChars[n + 1]>>
    ELSE DigitsOf(n \div 10) \o <<DigitChars[(n % 10) + 1]>>

NumText(n) == IF n < 0 THEN <<"-">> \o DigitsOf(0 - n) ELSE DigitsOf(n)

\* The concatenation of the texts of a list, `gap` after each of them.
RECURSIVE Joined(_, _)
Joined(texts, gap) ==
    IF texts = <<>> THEN <<>>
    ELSE Head(texts) \o gap \o Joined(Tail(texts), gap)

PointText(pt) ==
    <<"(", " ">> \o NumText(pt[1]) \o <<" ">> \o NumText(pt[2]) \o <<" ">>
      \o NumText(pt[3]) \o <<" ", ")">>

PlaneText(line) ==
    Joined([k \in 1..3 |-> PointText(line.points[k])], <<" ">>)
      \o line.texture
      \o Joined([k \in 1..5 |-> <<" ">> \o NumText(line.numbers[k])], <<>>)

StringText(w) == <<"\"">> \o w \o <<"\"">>

BrushText(b, gap) ==
    <<"{">> \o gap \o Joined([k \in 1..Len(b) |-> PlaneText(b[k])], gap)
      \o <<"}">>

EntityText(e, gap) ==
    <<"{">> \o gap
      \o Joined([k \in 1..Len(e.props) |->
                   StringText(e.props[k][1]) \o <<" ">>
                     \o StringText(e.props[k][2])], gap)
      \o Joined([k \in 1..Len(e.brushes) |-> BrushText(e.brushes[k], gap)], gap)
      \o <<"}">>

MapText(m, gap) ==
    gap \o Joined([k \in 1..Len(m) |-> EntityText(m[k], gap)], gap)

TB_empty == <<"_", "_", "T", "B", "_", "e", "m", "p", "t", "y">>

PlaneLine(p0, p1, p2, numbers) ==
    [points |-> <<p0, p1, p2>>, texture |-> TB_empty, numbers |-> numbers]

\* The plane lines of the map_cube test (lines 269-274).
CubeLines ==
    << PlaneLine(<<-64, -16, -64>>, <<-64, -16, -63>>, <<-64, -17, -64>>,
                 <<0, 0, 90, 1, 1>>),
       PlaneLine(<<64, -64, 64>>, <<64, -64, 65>>, <<65, -64, 64>>,
                 <<0, 0, 0, 1, 1>>),
       PlaneLine(<<-64, -16, -64>>, <<-64, -17, -64>>, <<-63, -16, -64>>,
                 <<0, 0, 0, 1, -1>>),
       PlaneLine(<<64, -48, 64>>, <<65, -48, 64>>, <<64, -49, 64>>,
                 <<0, 0, 0, 1, -1>>),
       PlaneLine(<<-64, 64, -64>>, <<-63, 64, -64>>, <<-64, 64, -63>>,
                 <<0, 0, 0, 1, 1>>),
       PlaneLine(<<64, -48, 64>>, <<64, -49, 64>>, <<64, -48, 65>>,
                 <<0, 0, 90, 1, 1>>) >>

\* The plane line of the map_brush test (line 257).
BrushLine ==
    PlaneLine(<<-64, -64, -16>>, <<-64, -63, -16>>, <<-64, -64, -15>>,
              <<0, 0, 0, 1, 1>>)

SourceEntity(props, brushes) == [props |-> props, brushes |-> brushes]

\* "{}", the entity of map_property, of map_brush and of map_cube, and an
\* entity of two properties, an empty brush and a brush of two planes.
EntityPool ==
    { SourceEntity(<<>>, <<>>),
      SourceEntity(<<(<<<<"h", "e", "l", "l", "o">>, <<"w", "o", "r", "l", "d">>>>)>>, <<>>),
      SourceEntity(<<>>, <<(<<BrushLine>>)>>),
      SourceEntity(<<(<<<<"c", "l", "a", "s", "s", "n", "a", "m", "e">>, <<"w", "o", "r", "l", "d", "s", "p", "a", "w", "n">>>>)>>, <<CubeLines>>),
      SourceEntity(<<(<<<<"c", "l", "a", "s", "s", "n", "a", "m", "e">>, <<"w", "o", "r", "l", "d">>>>), (<<<<"h", "e", "l", "l", "o">>, <<>> >>)>>,
                   <<(<<>>), (<<BrushLine, CubeLines[2]>>)>>) }

MaxEntities == 2

SourceMaps == UNION {[1..n -> EntityPool] : n \in 0..MaxEntities}

\* What stands between two items of a text: nothing, a line end, or a
\* comment with the spaces around it.
Gaps == {<<>>, <<"\n">>, <<" ", "/", "/", " ", "x", "\n", " ">>}

WellFormedTexts == {MapText(m, gap) : m \in SourceMaps, gap \in Gaps}

\* Texts outside the grammar: an unclosed '{', a stray '}', a property
\* without its value, an unclosed string, a plane line with a number or a
\* parenthesis missing, text after the last entity that is no entity, and an
\* entity that is never closed after a well-formed one.
MalformedTexts ==
    { <<"{">>, <<"}">>, <<"{", "}", "}">>, <<"{", "{", "}">>, <<"x">>,
      <<"{", "}", " ", "x">>, <<"{", "\"", "a", "\"", "}">>,
      <<"{", "\"", "a", "}">>, <<"{", "(", "}">>,
      <<"{", "}", "{">> }
      \cup {<<"{", "{">> \o SubSeq(PlaneText(BrushLine), 1, n) \o <<"}", "}">> :
              n \in 1..(Len(PlaneText(BrushLine)) - 1)}
      \cup {MapText(<<e>>, <<"\n">>) \o <<"{", "\n">> : e \in EntityPool}
      \cup {MapText(<<e>>, <<" ">>) \o <<"w", "o", "r", "l", "d">> : e \in EntityPool}

InitParse ==
    /\ text \in WellFormedTexts \cup MalformedTexts
    /\ parsed = <<>>
    /\ ppc = "idle"
    /\ input = <<>>
    /\ points_list = <<>>
    /\ HullIdle
    /\ BrushIdle

NextParse == FromStr

SpecParse == InitParse /\ [][NextParse]_vars

(***************************************************************************)
(* Properties of build_convex_hull.                                        *)
(***************************************************************************)
Coplanar(a, b, c, d) == Dot(VSub(d, a), Cross(VSub(b, a), VSub(c, a))) = 0

\* All points of the list lie in one plane (collinear and identical points
\* included).
AllCoplanar(list) ==
    \A i, j, k, l \in DOMAIN list : Coplanar(list[i], list[j], list[k], list[l])

\* General position: no two points equal on any coordinate, no four coplanar.
GeneralPosition(list) ==
    /\ \A i, j \in DOMAIN list :
          i # j => \A c \in 1..3 : list[i][c] # list[j][c]
    /\ \A i, j, k, l \in DOMAIN list :
          Cardinality({i, j, k, l}) = 4
            => ~Coplanar(list[i], list[j], list[k], list[l])

\* Every half-edge of the mesh belongs to exactly one face and so does its
\* pair: every edge is shared by exactly two faces, with opposite winding.
Closed(mesh) ==
    \A f \in FaceIds(mesh) : \A e \in FaceEdges(mesh.faces[f]) :
        /\ e[1] # e[2]
        /\ Cardinality(EdgeOwners(mesh, e)) = 1
        /\ Cardinality(EdgeOwners(mesh, <<e[2], e[1]>>)) = 1

\* C1: for an input of at least 4 points in general position, no face of the
\* returned mesh can see an input point.
C1_NoFaceSeesInput ==
    (pc = "done" /\ Len(input) >= 4 /\ GeneralPosition(input))
      => \A f \in FaceIds(hull_mesh) : \A k \in DOMAIN input :
            ~can_see(hull_mesh, f, input[k])

\* C2: with fewer than 4 points build_convex_hull returns the empty mesh at
\* once: no seed is selected, no face is queued, no iteration runs.
C2_ShortInputEmpty ==
    (Len(input) < 4 /\ pc # "start")
      => /\ pc = "done"
         /\ hull_mesh = EmptyMesh
         /\ tet_points = <<>>
         /\ face_queue = <<>>
         /\ last = "empty"

C2_Witness == pc = "done" /\ Len(input) = 3 /\ hull_mesh = EmptyMesh

\* C3: with 4 or more points that are all coplanar build_convex_hull returns
\* the empty mesh, as it does for fewer than 4 points.
C3_CoplanarEmpty ==
    (pc = "done" /\ Len(input) >= 4 /\ AllCoplanar(input))
      => hull_mesh = EmptyMesh

\* C4: with exactly 4 non-coplanar points the seeds are the 4 points, and the
\* returned mesh has 4 faces and 4 vertices, the 4 input points.
C4_TetrahedronItself ==
    (pc = "done" /\ Len(input) = 4 /\ ~AllCoplanar(input))
      => /\ SeqRange(tet_points) = 1..4
         /\ Cardinality(FaceIds(hull_mesh)) = 4
         /\ Cardinality(DOMAIN hull_mesh.verts) = 4
         /\ MeshPoints(hull_mesh) = SeqRange(input)

\* C5: after the tetrahedron is built and after every successful attachment
\* the mesh is closed.
C5_MeshClosed ==
    last \in {"tetrahedron", "attached"} => Closed(hull_mesh)

C5_Witness ==
    /\ last = "attached"
    /\ Cardinality(FaceIds(hull_mesh)) >= 8
    /\ Closed(hull_mesh)

\* C6: on the 8 corners of a cube and points strictly inside it, in any
\* order, the vertices of the returned mesh are exactly the 8 corners.
C6_CubeCorners ==
    (pc = "done" /\ CubeCorners \subseteq SeqRange(input))
      => MeshPoints(hull_mesh) = CubeCorners

\* C7: two orderings of one point set in general position give meshes with
\* the same vertices: every run returns the vertices the sorted ordering gives.
C7_OrderIndependent ==
    (pc = "done" /\ GeneralPosition(input))
      => MeshPoints(hull_mesh)
           = MeshPoints(HullOf(SortedList(SeqRange(input))))

(***************************************************************************)
(* Properties of Brush::vertices.                                          *)
(***************************************************************************)
\* Every normal of the brush is n or -n for one direction n.
AllParallel(ps) ==
    \E n \in SeqRange(plane_normals(ps)) :
        /\ ~IsNaNVec(n)
        /\ \A i \in 1..Len(ps) : plane_normal(ps[i]) \in {n, VScale(0 - 1, n)}

\* C8: every vertex Brush::vertices returns is, for every plane of the brush,
\* at a signed distance of at least -0.2 from the plane.
C8_VerticesWithinPlanes ==
    bpc = "done"
      => \A x \in 1..Len(vertices) : \A i \in 1..Len(planes) :
            within(vertices[x], planes[i].points[1], plane_normal(planes[i]))

C8_Witness ==
    /\ bpc = "done"
    /\ Len(planes) = 4
    /\ vertices # <<>>
    /\ \E zsign \in {1, 0 - 1} :
          Len(vertices) < Len(candidates(planes, plane_normals(planes), zsign))

\* C9: a brush of fewer than 4 planes has no vertices.
C9_FewPlanesEmpty ==
    (bpc = "done" /\ Len(planes) < 4) => vertices = <<>>

\* C10: a brush whose planes are all mutually parallel has no vertices.
C10_ParallelEmpty ==
    (bpc = "done" /\ AllParallel(planes)) => vertices = <<>>

C10_Witness ==
    /\ bpc = "done"
    /\ Len(planes) >= 3
    /\ AllParallel(planes)
    /\ Cardinality(SeqRange(plane_normals(planes))) = 2
    /\ vertices = <<>>

\* The point of integer coordinates p as a vertex.
AsVertex(p) == <<(<<p[1], 1>>), (<<p[2], 1>>), (<<p[3], 1>>)>>

\* The 8 corners of the box whose 6 face planes are the planes ps: on each
\* axis the two offsets of the planes across it.
BoxCorners(ps) ==
    LET off(c) == {ps[i].points[1][c] : i \in {k \in 1..Len(ps) :
                                                plane_normal(ps[k])[c] # 0}}
    IN  {AsVertex(<<x, y, z>>) : x \in off(1), y \in off(2), z \in off(3)}

\* C11: for the 6 face planes of an axis-aligned box, wound as in map_cube,
\* the distinct points Brush::vertices returns are the 8 corners of the box.
C11_BoxCorners ==
    (bpc = "done" /\ planes \in BoxBrushes)
      => /\ SeqRange(vertices) = BoxCorners(planes)
         /\ Cardinality(SeqRange(vertices)) = 8

C11_Witness ==
    /\ bpc = "done"
    /\ planes = MapCubeBrush
    /\ AsVertex(<<64, -64, -64>>) \in SeqRange(vertices)
    /\ Len(vertices) = 48

\* C12: no vertex is pushed for a triple of planes whose matrix of normals
\* has determinant zero.
C12_SingularSkipped ==
    bpc = "done"
      => \A x \in 1..Len(pushed) :
            LET n1 == plane_normal(planes[pushed[x][1]])
                n2 == plane_normal(planes[pushed[x][2]])
                n3 == plane_normal(planes[pushed[x][3]])
            IN  (~IsNaNVec(n1) /\ ~IsNaNVec(n2) /\ ~IsNaNVec(n3))
                  => determinant(n1, n2, n3) # 0

\* C13: the normal Brush::vertices derives for a plane is
\* normalize(cross(p2 - p0, p1 - p0)), the normal gungame_mappy derives for
\* it, and the vertices kept are on the side that normal designates.
C13_SameOrientation ==
    (bpc = "done" /\ mpc = "done")
      => \A i \in 1..Len(planes) :
            ~IsNaNVec(half_planes[i][2])
              => /\ plane_normal(planes[i]) = half_planes[i][2]
                 /\ \A x \in 1..Len(vertices) :
                       within(vertices[x], half_planes[i][1], half_planes[i][2])

(***************************************************************************)
(* Properties of Map::from_str.                                            *)
(***************************************************************************)
\* The Plane a plane line stands for; the texture is the literal matched.
PlaneOf(line) ==
    Plane_new(line.points, Tail(line.texture), line.numbers[1], line.numbers[2],
              line.numbers[3], line.numbers[4], line.numbers[5])

RECURSIVE PropertiesOf(_)
PropertiesOf(props) ==
    IF props = <<>> THEN <<>>
    ELSE Insert(PropertiesOf(SubSeq(props, 1, Len(props) - 1)),
                props[Len(props)][1], props[Len(props)][2])

\* The Map a source map stands for.
MapOf(m) ==
    Map_new([k \in 1..Len(m) |->
        [properties |-> PropertiesOf(m[k].props),
         brushes |-> [b \in 1..Len(m[k].brushes) |->
                        Brush_new([l \in 1..Len(m[k].brushes[b]) |->
                                     PlaneOf(m[k].brushes[b][l])])]]])

\* C14: parsing a well-formed text succeeds and gives the entities in
\* order, each with its properties and its brushes, each brush with one
\* Plane for each plane line in order.
C14_WellFormedParses ==
    ppc = "done"
      => \A m \in SourceMaps : \A gap \in Gaps :
            text = MapText(m, gap)
              => /\ parsed.ok
                 /\ parsed.map = MapOf(m)
                 /\ Len(parsed.map.entities) = Len(m)

C14_Witness ==
    /\ ppc = "done"
    /\ parsed.ok
    /\ Len(parsed.map.entities) = 1
    /\ DOMAIN parsed.map.entities[1].properties = {<<"c", "l", "a", "s", "s", "n", "a", "m", "e">>}
    /\ Len(parsed.map.entities[1].brushes) = 1
    /\ Len(parsed.map.entities[1].brushes[1].planes) = 6
    /\ parsed.map.entities[1].brushes[1].planes[6].points
         = <<(<<64, -48, 64>>), (<<64, -49, 64>>), (<<64, -48, 65>>)>>

\* C15: for a text outside the grammar Map::from_str returns an error.
C15_MalformedRejected ==
    (ppc = "done" /\ text \in MalformedTexts) => ~parsed.ok

(***************************************************************************)
(* Properties of the loop of build_convex_hull.                            *)
(***************************************************************************)
\* The latest step was an iteration that selected a furthest point.
Selected == last \in {"attached", "failed"}

\* C16: line 185 removes the selected point from the working list and leaves
\* every other point in place.
C16_RemovesSelected ==
    Selected
      => \E i \in 1..Len(sel.before) :
            /\ sel.before[i] = sel.max_point
            /\ sel.after_remove = RemoveAt(sel.before, i)

\* C17: after a successful attachment no point that a removed light face
\* could see and no new face can see is in the working list, and every point
\* a new face can see still is.
C17_PrunedAfterAttach ==
    last = "attached"
      => \A k \in 1..Len(sel.before) :
            LET p == sel.before[k]
                seen == \E f \in SeqRange(sel.new_faces) : can_see(hull_mesh, f, p)
            IN  p # sel.max_point
                  => /\ (k \in sel.light_saw /\ ~seen)
                          => p \notin SeqRange(points_list)
                     /\ seen => p \in SeqRange(points_list)

\* C18: when the attachment fails the chosen point has left the working
\* list, no face is enqueued and the loop goes on with the next queued face;
\* a point whose attachment failed is never selected again.
C18_FailedPointDropped ==
    /\ last = "failed"
         => /\ sel.max_point \notin SeqRange(points_list)
            /\ face_queue = Tail(sel.queue)
            /\ pc = "loop"
    /\ Selected => ~sel.again

\* get_extreme_points has scanned the list: the input had at least 4 points
\* and build_convex_hull went past its early return.
Scanned == pc # "start" /\ ~too_few(input)

\* No input point is strictly beyond `pair` on the axis and side of slot s.
AttainsExtreme(list, s, pair) ==
    /\ pair.pt = list[pair.idx]
    /\ \A k \in DOMAIN list :
         ~SlotBeats(Pair(k, list[k]), s, [t \in 0..5 |-> pair])

\* What one tracker of slot s, updated once per point with the slot's strict
\* comparison, ends on: the first point attaining the extreme of the slot.
FirstExtreme(list, s) ==
    CHOOSE k \in DOMAIN list :
        /\ AttainsExtreme(list, s, Pair(k, list[k]))
        /\ \A j \in 1..(k - 1) : ~AttainsExtreme(list, s, Pair(j, list[j]))

\* C19: after the scan each of the six slots holds a point attaining the true
\* extreme of its axis over the input, and the slots are those six independent
\* trackers, updated once per point, would hold.
C19_SlotsAreExtremes ==
    Scanned
      => \A boundaries \in {Boundaries(input)} : \A s \in 0..5 :
           /\ AttainsExtreme(input, s, boundaries[s])
           /\ boundaries[s].idx = FirstExtreme(input, s)

\* C20: after the scan, among the input points whose coordinate equals the
\* value held in a slot, the slot holds the one of lowest input index.
C20_FirstFound ==
    Scanned
      => \A boundaries \in {Boundaries(input)} : \A s \in 0..5 :
           \A k \in DOMAIN input :
             input[k][SlotAxis(s)] = boundaries[s].pt[SlotAxis(s)]
               => boundaries[s].idx <= k

\* The four seed points, in the order of tet_points.
SeedPoints == [k \in 1..4 |-> input[tet_points[k]]]

\* C21: when the initial tetrahedron has been constructed from an input that
\* is not all coplanar, the four seeds are pairwise distinct input points and
\* they are not coplanar.
C21_SeedsIndependent ==
    (Scanned /\ ~AllCoplanar(input))
      => /\ \A k \in 1..4 : tet_points[k] \in DOMAIN input
         /\ Cardinality(SeqRange(tet_points)) = 4
         /\ Cardinality(SeqRange(SeedPoints)) = 4
         /\ ~Coplanar(SeedPoints[1], SeedPoints[2], SeedPoints[3], SeedPoints[4])

\* The squared perpendicular distance of target to the infinite line through
\* pt1 and pt2 (pt1 # pt2), as a fraction.
perpendicular_dist_sq(pt1, pt2, target) ==
    LET line == VSub(pt2, pt1)
        to_target == VSub(target, pt1)
    IN  <<magnitude_squared(to_target) * magnitude_squared(line)
            - Dot(to_target, line) * Dot(to_target, line),
          magnitude_squared(line)>>

FracEq(r, s) == r[1] * s[2] = s[1] * r[2]

\* The slots p2 is chosen among: those that hold neither p0's nor p1's index.
Eligible(boundaries, seeds) ==
    {s \in 0..5 : boundaries[s].idx \notin {seeds[1].idx, seeds[2].idx}}

EntriesOutside(list, idxs) ==
    LET ks == SelectSeq([k \in 1..Len(list) |-> k], LAMBDA k : k \notin idxs)
    IN  [j \in 1..Len(ks) |-> list[ks[j]]]

\* C23: the seed removal leaves the input list without the entries at the
\* distinct seed indices, the others in their original order, also when seed
\* indices repeat; the working list after the seeding is what the retain of
\* lines 157-159 keeps of that list.
C23_SeedsRemoved ==
    Scanned
      => /\ remove_seeds(input, tet_points)
              = EntriesOutside(input, SeqRange(tet_points))
         /\ last = "tetrahedron"
              => points_list
                   = retain_visible(EntriesOutside(input, SeqRange(tet_points)),
                                    hull_mesh)

\* A seeding with a repeated seed index, a kept entry before a seed and
\* a point left in the working list.
C23_Witness ==
    /\ last = "tetrahedron"
    /\ Cardinality(SeqRange(tet_points)) < 4
    /\ \E k \in DOMAIN input : \E t \in SeqRange(tet_points) :
          k < t /\ k \notin SeqRange(tet_points)
    /\ points_list # <<>>

\* C24: when the loop has ended on an empty queue and no attachment failed,
\* no point left in the working list is visible to a face of the final mesh.
C24_NothingLeftVisible ==
    (pc = "done" /\ last = "returned" /\ tried = {})
      => \A k \in DOMAIN points_list : \A f \in FaceIds(hull_mesh) :
            ~can_see(hull_mesh, f, points_list[k])

\* A run with an attachment and no failure that returns with points left in
\* the working list.
C24_Witness ==
    /\ pc = "done"
    /\ last = "returned"
    /\ tried = {}
    /\ points_list # <<>>
    /\ Cardinality(FaceIds(hull_mesh)) > 4

\* Six times the signed volume of the tetrahedron (a, b, c, d).
SignedVolume(a, b, c, d) == Dot(VSub(b, a), Cross(VSub(c, a), VSub(d, a)))

\* C25: the order returned for the seeds p0, p1, p2, p3 starts with p3, ends
\* with p2 and has p0 and p1 in between in one of their two orders; for
\* non-coplanar seeds the signed volume of the four points in that order has
\* one sign, the negative one, and no face of the tetrahedron built from them
\* faces its fourth vertex.
C25_OneOrientation ==
    Scanned
      => \A seeds \in {SeedPairs(input)} :
           /\ tet_points \in {<<seeds[4].idx, seeds[1].idx, seeds[2].idx, seeds[3].idx>>,
                              <<seeds[4].idx, seeds[2].idx, seeds[1].idx, seeds[3].idx>>}
           /\ ~Coplanar(seeds[1].pt, seeds[2].pt, seeds[3].pt, seeds[4].pt)
                => /\ SignedVolume(SeedPoints[1], SeedPoints[2],
                                   SeedPoints[3], SeedPoints[4]) < 0
                   /\ last = "tetrahedron"
                        => \A f \in FaceIds(hull_mesh) : \A k \in 1..4 :
                              ~can_see(hull_mesh, f, SeedPoints[k])

\* A seeding with non-coplanar seeds where p3 lies on the side of the plane
\* (p0, p1, p2) that keeps p0 before p1.
C25_Witness ==
    /\ last = "tetrahedron"
    /\ \E seeds \in {SeedPairs(input)} :
         /\ ~Coplanar(seeds[1].pt, seeds[2].pt, seeds[3].pt, seeds[4].pt)
         /\ tet_points = <<seeds[4].idx, seeds[1].idx, seeds[2].idx, seeds[3].idx>>
         /\ seeds[1].idx # seeds[2].idx

\* C26: every iteration of the loop pops one face; an iteration that selects
\* a point takes exactly one entry out of the working list at line 185; faces
\* are enqueued only by an iteration that attached a point; the working list
\* never grows; and build_convex_hull returns, whether attachments fail or not.
C26_LoopTerminates ==
    /\ [][(pc = "loop" /\ pc' = "loop")
            => /\ face_queue # <<>>
               /\ IF last' = "attached"
                  THEN /\ sel'.new_faces # <<>>
                       /\ face_queue' = Tail(face_queue) \o sel'.new_faces
                  ELSE face_queue' = Tail(face_queue)
               /\ last' \in {"attached", "failed"}
                    => /\ sel'.before = points_list
                       /\ Len(sel'.after_remove) = Len(points_list) - 1
                       /\ Len(points_list') < Len(points_list)
               /\ Len(points_list') <= Len(points_list)]_vars
    /\ <>(pc = "done")

\* A run that returned after an attachment had failed and another succeeded.
C26_Witness ==
    /\ pc = "done"
    /\ last = "returned"
    /\ tried # {}
    /\ Cardinality(FaceIds(hull_mesh)) > 4

\* The six orderings of a triple of plane indices.
Orderings(t) ==
    {<<t[1], t[2], t[3]>>, <<t[1], t[3], t[2]>>, <<t[2], t[1], t[3]>>,
     <<t[2], t[3], t[1]>>, <<t[3], t[1], t[2]>>, <<t[3], t[2], t[1]>>}

\* The number of entries of the list that are the point v.
Occurrences(list, v) == Cardinality({x \in DOMAIN list : list[x] = v})

\* C27: nothing is deduplicated: the triples that reach line 73 come with
\* their six orderings, every surviving point appears a multiple of 6 times
\* in the output and the length of the output is divisible by 6.
C27_MultiplesOfSix ==
    bpc = "done"
      => /\ \A x \in DOMAIN pushed : Orderings(pushed[x]) \subseteq SeqRange(pushed)
         /\ \A x \in DOMAIN vertices : Occurrences(vertices, vertices[x]) % 6 = 0
         /\ Len(vertices) % 6 = 0

\* A brush with a triple of determinant zero among those that reach line 73,
\* a point that survives exactly 6 times and another surviving point.
C27_Witness ==
    /\ bpc = "done"
    /\ \E x \in DOMAIN pushed :
          LET n1 == plane_normal(planes[pushed[x][1]])
              n2 == plane_normal(planes[pushed[x][2]])
              n3 == plane_normal(planes[pushed[x][3]])
          IN  /\ ~IsNaNVec(n1) /\ ~IsNaNVec(n2) /\ ~IsNaNVec(n3)
              /\ determinant(n1, n2, n3) = 0
    /\ \E x \in DOMAIN vertices : Occurrences(vertices, vertices[x]) = 6
    /\ Len(vertices) > 6

\* C28: the position line 185 hands to points_list.remove() is a position of
\* the working list: the visible points are entries of the list, so the
\* position the fold found among them is within the length of the list.
C28_RemovalInBounds ==
    Selected
      => /\ sel.max_index \in 1..Len(sel.visible)
         /\ Len(sel.visible) <= Len(sel.before)
         /\ removed_index(sel.visible, sel.max_index) \in 1..Len(sel.before)
         /\ Len(sel.after_remove) = Len(sel.before) - 1

\* A selection of the last position of a working list of several points.
C28_Witness ==
    /\ Selected
    /\ Len(sel.before) >= 2
    /\ sel.max_index = Len(sel.before)

\* C29: the light faces handed to attach_point_for_faces are not empty, the
\* popped face is one of them and all of them are faces of the mesh at the
\* call; a popped face that has left the mesh selects nothing.
C29_LightFacesInMesh ==
    /\ Selected
         => /\ sel.light # {}
            /\ Head(sel.queue) \in sel.light
            /\ sel.light \subseteq sel.mesh_faces
    /\ last = "stale" => sel = NoSelection

\* A call with several light faces while the queue holds a face that has
\* left the mesh.
C29_Witness ==
    /\ Selected
    /\ Cardinality(sel.light) >= 2
    /\ \E k \in DOMAIN sel.queue : sel.queue[k] \notin sel.mesh_faces

\* C30: get_extreme_points returns four indices, each a position of the list
\* it was given, and build_convex_hull only calls it on a list of at least 4
\* points, as its debug assertion demands.
C30_SeedIndicesValid ==
    /\ Scanned
         => /\ tet_points = get_extreme_points(input)
            /\ Len(tet_points) = 4
            /\ \A k \in 1..4 : tet_points[k] \in 1..Len(input)
    /\ tet_points # <<>> => Len(input) >= 4

\* A seeding of a list of exactly 4 points that uses its last position.
C30_Witness ==
    /\ Scanned
    /\ Len(input) = 4
    /\ Len(input) \in SeqRange(tet_points)


====
